---- MODULE Spec2Model ----
(***************************************************************************)
(* Model of src/main_new.py: the MetricsLoggingCallback (test-pass         *)
(* accumulator), the ambient mlflow run state it reads, and main().        *)
(*                                                                         *)
(* Two specifications:                                                     *)
(*   Spec      an execution engine calling the callback's two hooks in any *)
(*             order, with the in-process mlflow run either active or not  *)
(*   MainSpec  one invocation of main()                                    *)
(***************************************************************************)
EXTENDS Integers, Sequences, FiniteSets

VARIABLES
    all_preds,          \* self.all_preds: list of per-batch logit arrays
    all_labels,         \* self.all_labels: list of per-batch label arrays
    tracking_uri,       \* mlflow's global tracking uri
    active_run_stack,   \* mlflow's in-process stack of active runs
    run_status,         \* tracking backend: status of every run id
    logger_run_id,      \* trainer.logger.run_id
    run,                \* main's local `run` (the run its `with` entered)
    pc,                 \* main's position ("engine" under Spec)
    history,            \* main's phases so far, in order
    pass,               \* batches observed since the last on_test_end call
    last                \* what the most recent call did

vars == << all_preds, all_labels, tracking_uri, active_run_stack, run_status,
           logger_run_id, run, pc, history, pass, last >>

(***************************************************************************)
(* Bounds and input domains                                                *)
(***************************************************************************)
MaxBatches == 2

MaxBatchSize == 2

RunIds == {"r1", "r2"}

NoRun == "none"

TrackingUri == "mlflow_tracking_uri"

\* (logit, label) rows a test step may produce
SampleRows == { <<2, 1>>, <<-1, 1>> }

RowSeqs == UNION { [1..n -> SampleRows] : n \in 1..MaxBatchSize }

Faults == {"none", "start_run", "publish"}

(***************************************************************************)
(* Batch outputs: what test_step returns, or None                          *)
(***************************************************************************)
NoOutputs == [present |-> FALSE, logits |-> << >>, labels |-> << >>]

BatchOutput(rows) ==
    [present |-> TRUE,
     logits  |-> [i \in 1..Len(rows) |-> rows[i][1]],
     labels  |-> [i \in 1..Len(rows) |-> rows[i][2]]]

\* a batch output whose logits and labels differ in batch size
MalformedOutput == [present |-> TRUE, logits |-> << 2 >>, labels |-> << 1, 1 >>]

Outputs ==
    {NoOutputs, MalformedOutput} \cup { BatchOutput(rows) : rows \in RowSeqs }

(***************************************************************************)
(* numpy / scipy                                                           *)
(***************************************************************************)
\* faulty variant: concatenating an empty list yields an empty array
ConcatenateAcceptsEmpty(arrays) == TRUE

\* np.concatenate(arrays, axis=0) raises ValueError on an empty list
CanConcatenate(arrays) == arrays # << >>

RECURSIVE Concatenate(_)
Concatenate(arrays) ==
    IF arrays = << >> THEN << >>
    ELSE Head(arrays) \o Concatenate(Tail(arrays))

\* scipy.special.expit, in thousandths, on the logits of SampleRows
Sigmoid(x) ==
    CASE x = -1 -> 269
      [] x = 0  -> 500
      [] x = 2  -> 881

SigmoidAll(logits) == [i \in 1..Len(logits) |-> Sigmoid(logits[i])]

(***************************************************************************)
(* mlflow's fluent API: the in-process stack of active runs                *)
(***************************************************************************)
\* mlflow.active_run(): the innermost active run, or None
ActiveRun(stack) == IF stack = << >> THEN NoRun ELSE stack[Len(stack)]

\* faulty variant: the handler never sees the active run
ActiveRunAssumedNone(stack) == TRUE

ActiveRunIsNone(stack) == ActiveRun(stack) = NoRun

\* mlflow.start_run(run_id=...) resumes an existing run; it raises when a
\* run is already active (nested=False), when the run does not exist, or
\* when the backend cannot be reached
CanStartRun(stack, status, run_id, fault) ==
    /\ stack = << >>
    /\ run_id \in RunIds
    /\ status[run_id] # "absent"
    /\ fault # "start_run"

\* faulty variant: the run is started but not made the active run
EnterRunNotActivated(stack, run_id) == stack

\* faulty variant: a brand new run is started instead of resuming run_id
EnterRunStartsNewRun(stack, run_id) ==
    Append(stack, CHOOSE r \in RunIds : r # run_id)

EnterRun(stack, run_id) == Append(stack, run_id)

\* ActiveRun.__exit__: end_run with FINISHED, or FAILED when the block raised
ExitStatus(outcome) == IF outcome = "returned" THEN "FINISHED" ELSE "FAILED"

\* faulty variant: leaving the `with` block keeps the run active
LeaveRunKeepsActive(stack) == stack

LeaveRun(stack) == SubSeq(stack, 1, Len(stack) - 1)

(***************************************************************************)
(* MetricsReporter (src.interpretability.evaluation)                       *)
(***************************************************************************)
NoMetrics == [n |-> 0, correct |-> 0]

CanCalculate(y_true, y_pred_proba) == Len(y_true) = Len(y_pred_proba)

calculate_metrics(y_true, y_pred_proba) ==
    [n       |-> Len(y_true),
     correct |-> Cardinality({ i \in 1..Len(y_true) :
                     (y_pred_proba[i] >= 500) <=> (y_true[i] = 1) })]

\* log_to_mlflow writes to the run attached in the calling context
CanPublish(attached, fault) == attached # NoRun /\ fault # "publish"

Event(ev, attached) == [ev |-> ev, run |-> attached]

\* faulty variant: log_to_mlflow is called a second time
ReportMetricsPublishTwice(y_true, y_pred_proba, attached, fault) ==
    LET calc == Event("calculate_metrics", attached)
        pub  == Event("log_to_mlflow", attached)
    IN  [outcome   |-> IF CanPublish(attached, fault)
                       THEN "returned" ELSE "TrackingBackendError",
         raised_by |-> IF CanPublish(attached, fault)
                       THEN "none" ELSE "log_to_mlflow",
         trace     |-> << calc, pub, pub >>,
         metrics   |-> calculate_metrics(y_true, y_pred_proba)]

\* faulty variant: an error of log_to_mlflow is caught and dropped
ReportMetricsSwallowsError(y_true, y_pred_proba, attached, fault) ==
    [outcome   |-> "returned",
     raised_by |-> "none",
     trace     |-> << Event("calculate_metrics", attached),
                      Event("log_to_mlflow", attached) >>,
     metrics   |-> calculate_metrics(y_true, y_pred_proba)]

\* lines 67-69 and 72-74: reporter = MetricsReporter();
\* reporter.calculate_metrics(...); reporter.log_to_mlflow()
ReportMetrics(y_true, y_pred_proba, attached, fault) ==
    LET calc == Event("calculate_metrics", attached)
        pub  == Event("log_to_mlflow", attached)
    IN  IF ~CanCalculate(y_true, y_pred_proba)
        THEN [outcome   |-> "ShapeMismatchError",
              raised_by |-> "calculate_metrics",
              trace     |-> << calc >>,
              metrics   |-> NoMetrics]
        ELSE IF ~CanPublish(attached, fault)
        THEN [outcome   |-> "TrackingBackendError",
              raised_by |-> "log_to_mlflow",
              trace     |-> << calc, pub >>,
              metrics   |-> calculate_metrics(y_true, y_pred_proba)]
        ELSE [outcome   |-> "returned",
              raised_by |-> "none",
              trace     |-> << calc, pub >>,
              metrics   |-> calculate_metrics(y_true, y_pred_proba)]

(***************************************************************************)
(* MetricsLoggingCallback                                                  *)
(***************************************************************************)
\* __init__, lines 36-37
EmptyBuffer == << >>

\* faulty variant: the labels of a batch are not buffered
on_test_batch_end_drops_labels(outputs) ==
    IF outputs.present
    THEN [all_preds  |-> Append(all_preds, outputs.logits),
          all_labels |-> all_labels,
          trace      |-> << >>]
    ELSE [all_preds  |-> all_preds,
          all_labels |-> all_labels,
          trace      |-> << >>]

\* faulty variant: the `outputs is not None` test is missing
on_test_batch_end_unguarded(outputs) ==
    [all_preds  |-> Append(all_preds, outputs.logits),
     all_labels |-> Append(all_labels, outputs.labels),
     trace      |-> << >>]

\* on_test_batch_end, lines 44-48: the buffers after the call, and the
\* mlflow / reporter calls made (none)
on_test_batch_end(outputs) ==
    IF outputs.present
    THEN [all_preds  |-> Append(all_preds, outputs.logits),
          all_labels |-> Append(all_labels, outputs.labels),
          trace      |-> << >>]
    ELSE [all_preds  |-> all_preds,
          all_labels |-> all_labels,
          trace      |-> << >>]

\* faulty variant: the buffers are never cleared
BufferNeverReset(buffer, outcome) == buffer

\* lines 76-78 are the last statements of on_test_end: they run only when
\* nothing before them raised
BufferAfterTestEnd(buffer, outcome) ==
    IF outcome = "returned" THEN EmptyBuffer ELSE buffer

\* what on_test_end leaves behind when it raises before touching mlflow
Raised(outcome, raised_by, trace, uri) ==
    [outcome      |-> outcome,
     raised_by    |-> raised_by,
     trace        |-> trace,
     all_preds    |-> all_preds,
     all_labels   |-> all_labels,
     tracking_uri |-> uri,
     stack        |-> active_run_stack,
     status       |-> run_status,
     agg_preds    |-> << >>,
     agg_labels   |-> << >>,
     y_pred_proba |-> << >>,
     metrics      |-> NoMetrics]

\* faulty variant: the tracking uri is set before the buffers are
\* concatenated
RaiseNoDataAfterSetUri ==
    Raised("NoDataError", "np.concatenate",
           << Event("set_tracking_uri", ActiveRun(active_run_stack)) >>,
           TrackingUri)

\* lines 52-53: np.concatenate raises on an empty buffer, before line 60
RaiseNoData == Raised("NoDataError", "np.concatenate", << >>, tracking_uri)

\* on_test_end, lines 50-78: outcome, calls made, and every variable after
on_test_end(fault) ==
    IF ~CanConcatenate(all_preds) \/ ~CanConcatenate(all_labels)
    THEN RaiseNoData
    ELSE
    LET agg_preds    == Concatenate(all_preds)
        agg_labels   == Concatenate(all_labels)
        y_pred_proba == SigmoidAll(agg_preds)
        run_id       == logger_run_id
        before       == ActiveRun(active_run_stack)
        head         == << Event("set_tracking_uri", before),
                           Event("active_run", before) >>
    IN  IF ActiveRunIsNone(active_run_stack)
        THEN
            IF ~CanStartRun(active_run_stack, run_status, run_id, fault)
            THEN [Raised("MlflowException", "start_run",
                         Append(head, Event("start_run", run_id)), TrackingUri)
                    EXCEPT !.agg_preds = agg_preds,
                           !.agg_labels = agg_labels,
                           !.y_pred_proba = y_pred_proba]
            ELSE
            LET inside == EnterRun(active_run_stack, run_id)
                rep    == ReportMetrics(agg_labels, y_pred_proba,
                                        ActiveRun(inside), fault)
            IN  [outcome      |-> rep.outcome,
                 raised_by    |-> rep.raised_by,
                 trace        |-> Append(head, Event("start_run", run_id))
                                    \o rep.trace
                                    \o << Event("end_run", ActiveRun(inside)) >>,
                 all_preds    |-> BufferAfterTestEnd(all_preds, rep.outcome),
                 all_labels   |-> BufferAfterTestEnd(all_labels, rep.outcome),
                 tracking_uri |-> TrackingUri,
                 stack        |-> LeaveRun(inside),
                 status       |-> [run_status EXCEPT
                                     ![run_id] = ExitStatus(rep.outcome)],
                 agg_preds    |-> agg_preds,
                 agg_labels   |-> agg_labels,
                 y_pred_proba |-> y_pred_proba,
                 metrics      |-> rep.metrics]
        ELSE
            LET rep == ReportMetrics(agg_labels, y_pred_proba, before, fault)
            IN  [outcome      |-> rep.outcome,
                 raised_by    |-> rep.raised_by,
                 trace        |-> head \o rep.trace,
                 all_preds    |-> BufferAfterTestEnd(all_preds, rep.outcome),
                 all_labels   |-> BufferAfterTestEnd(all_labels, rep.outcome),
                 tracking_uri |-> TrackingUri,
                 stack        |-> active_run_stack,
                 status       |-> run_status,
                 agg_preds    |-> agg_preds,
                 agg_labels   |-> agg_labels,
                 y_pred_proba |-> y_pred_proba,
                 metrics      |-> rep.metrics]

(***************************************************************************)
(* Record of the most recent call                                          *)
(***************************************************************************)
NoCall ==
    [op           |-> "none",
     outcome      |-> "returned",
     raised_by    |-> "none",
     trace        |-> << >>,
     fault        |-> "none",
     outputs      |-> NoOutputs,
     stack_before |-> << >>,
     n_before     |-> 0,
     sizes_ok     |-> TRUE,
     agg_preds    |-> << >>,
     agg_labels   |-> << >>,
     y_pred_proba |-> << >>,
     metrics      |-> NoMetrics,
     pass_batches |-> << >>,
     pass_prev    |-> "none"]

NewPass == [batches |-> << >>, prev |-> "none"]

\* the engine calls on_test_batch_end(outputs)
CallOnTestBatchEnd(outputs) ==
    LET r == on_test_batch_end(outputs)
    IN  /\ all_preds' = r.all_preds
        /\ all_labels' = r.all_labels
        /\ pass' = IF outputs.present
                   THEN [pass EXCEPT !.batches = Append(@, outputs)]
                   ELSE pass
        /\ last' = [NoCall EXCEPT !.op = "on_test_batch_end",
                                  !.trace = r.trace,
                                  !.outputs = outputs,
                                  !.stack_before = active_run_stack,
                                  !.n_before = Len(all_preds)]

\* the engine calls on_test_end(); the mlflow state it leaves is r.stack,
\* r.status, r.tracking_uri
CallOnTestEnd(r, fault) ==
    /\ all_preds' = r.all_preds
    /\ all_labels' = r.all_labels
    /\ tracking_uri' = r.tracking_uri
    /\ pass' = [batches |-> << >>,
                prev    |-> IF r.outcome = "returned"
                            THEN "returned" ELSE "raised"]
    /\ last' = [NoCall EXCEPT !.op = "on_test_end",
                              !.outcome = r.outcome,
                              !.raised_by = r.raised_by,
                              !.trace = r.trace,
                              !.fault = fault,
                              !.stack_before = active_run_stack,
                              !.n_before = Len(all_preds),
                              !.sizes_ok =
                                  \A k \in 1..Len(all_preds) :
                                      Len(all_preds[k]) = Len(all_labels[k]),
                              !.agg_preds = r.agg_preds,
                              !.agg_labels = r.agg_labels,
                              !.y_pred_proba = r.y_pred_proba,
                              !.metrics = r.metrics,
                              !.pass_batches = pass.batches,
                              !.pass_prev = pass.prev]

(***************************************************************************)
(* Spec: an engine driving the callback, the run active or not             *)
(***************************************************************************)
Init ==
    /\ all_preds = EmptyBuffer
    /\ all_labels = EmptyBuffer
    /\ tracking_uri = "unset"
    /\ run_status = [r \in RunIds |-> "FINISHED"]
    /\ active_run_stack = << >>
    /\ logger_run_id = "r1"
    /\ run = NoRun
    /\ pc = "engine"
    /\ history = << >>
    /\ pass = NewPass
    /\ last = NoCall

\* the surrounding program opens a run (as main does at line 113)
EnvStartRun ==
    /\ pc = "engine"
    /\ active_run_stack = << >>
    /\ \E r \in RunIds :
        /\ active_run_stack' = EnterRun(active_run_stack, r)
        /\ run_status' = [run_status EXCEPT ![r] = "RUNNING"]
    /\ last' = [NoCall EXCEPT !.op = "start_run"]
    /\ UNCHANGED << all_preds, all_labels, tracking_uri, logger_run_id, run,
                    pc, history, pass >>

\* the surrounding program closes its run (as main's `with` does on exit)
EnvEndRun ==
    /\ pc = "engine"
    /\ active_run_stack # << >>
    /\ run_status' = [run_status EXCEPT
                        ![ActiveRun(active_run_stack)] = "FINISHED"]
    /\ active_run_stack' = LeaveRun(active_run_stack)
    /\ last' = [NoCall EXCEPT !.op = "end_run"]
    /\ UNCHANGED << all_preds, all_labels, tracking_uri, logger_run_id, run,
                    pc, history, pass >>

OnTestBatchEnd ==
    /\ pc = "engine"
    /\ \E outputs \in Outputs :
        /\ outputs.present => Len(all_preds) < MaxBatches
        /\ CallOnTestBatchEnd(outputs)
    /\ UNCHANGED << tracking_uri, active_run_stack, run_status, logger_run_id,
                    run, pc, history >>

OnTestEnd ==
    /\ pc = "engine"
    /\ \E fault \in Faults :
        LET r == on_test_end(fault)
        IN  /\ CallOnTestEnd(r, fault)
            /\ active_run_stack' = r.stack
            /\ run_status' = r.status
    /\ UNCHANGED << logger_run_id, run, pc, history >>

Next == EnvStartRun \/ EnvEndRun \/ OnTestBatchEnd \/ OnTestEnd

Spec == Init /\ [][Next]_vars

(***************************************************************************)
(* OrchSpec: the engine driving the callback under main's wiring: one run, *)
(* created by mlflow.start_run (line 113) and given to the logger          *)
(* (line 130), is the only run the process opens or closes                 *)
(***************************************************************************)
OrchInit ==
    /\ all_preds = EmptyBuffer
    /\ all_labels = EmptyBuffer
    /\ tracking_uri = TrackingUri
    /\ \E r \in RunIds :
        /\ run = r
        /\ logger_run_id = r
        /\ run_status = [x \in RunIds |->
                            IF x = r THEN "RUNNING" ELSE "absent"]
        /\ active_run_stack = EnterRun(<< >>, r)
    /\ pc = "engine"
    /\ history = << >>
    /\ pass = NewPass
    /\ last = NoCall

\* the run is re-entered by its id
OrchStartRun ==
    /\ pc = "engine"
    /\ active_run_stack = << >>
    /\ active_run_stack' = EnterRun(active_run_stack, run)
    /\ run_status' = [run_status EXCEPT ![run] = "RUNNING"]
    /\ last' = [NoCall EXCEPT !.op = "start_run"]
    /\ UNCHANGED << all_preds, all_labels, tracking_uri, logger_run_id, run,
                    pc, history, pass >>

OrchNext == OrchStartRun \/ EnvEndRun \/ OnTestBatchEnd \/ OnTestEnd

OrchSpec == OrchInit /\ [][OrchNext]_vars

(***************************************************************************)
(* MainSpec: one invocation of main(), lines 81-177                        *)
(***************************************************************************)
MainInit ==
    /\ all_preds = EmptyBuffer
    /\ all_labels = EmptyBuffer
    /\ tracking_uri = "unset"
    /\ run_status = [r \in RunIds |-> "absent"]
    /\ active_run_stack = << >>
    /\ logger_run_id = NoRun
    /\ run = NoRun
    /\ pc = "start"
    /\ history = << >>
    /\ pass = NewPass
    /\ last = NoCall

\* a phase is entered once, however many calls it makes
Phase(h, name) ==
    IF h # << >> /\ h[Len(h)] = name THEN h ELSE Append(h, name)

\* faulty variant: the exception is dropped and the run ended as FINISHED
AbortMarksFinished(stack, status) ==
    /\ active_run_stack' = LeaveRun(stack)
    /\ run_status' = [status EXCEPT ![ActiveRun(stack)] = "FINISHED"]
    /\ pc' = "aborted"

\* an exception leaving the `with mlflow.start_run(...)` block of line 113:
\* the run is ended as FAILED and main terminates with the exception
Abort(stack, status) ==
    /\ active_run_stack' = LeaveRun(stack)
    /\ run_status' = [status EXCEPT ![ActiveRun(stack)] = "FAILED"]
    /\ pc' = "aborted"

\* line 110
main_set_tracking_uri ==
    /\ pc = "start"
    /\ tracking_uri' = TrackingUri
    /\ pc' = "start_run"
    /\ last' = [NoCall EXCEPT !.op = "set_tracking_uri"]
    /\ UNCHANGED << all_preds, all_labels, active_run_stack, run_status,
                    logger_run_id, run, history, pass >>

\* lines 113-115: mlflow.start_run(run_name=...) creates a run and makes it
\* the active run
main_start_run ==
    /\ pc = "start_run"
    /\ \E r \in RunIds :
        /\ run_status[r] = "absent"
        /\ run_status' = [run_status EXCEPT ![r] = "RUNNING"]
        /\ active_run_stack' = EnterRun(active_run_stack, r)
        /\ run' = r
    /\ history' = Phase(history, "start_run")
    /\ pc' = "build"
    /\ last' = [NoCall EXCEPT !.op = "start_run"]
    /\ UNCHANGED << all_preds, all_labels, tracking_uri, logger_run_id, pass >>

\* lines 126-164: the logger bound to run.info.run_id, and the trainer with
\* a new MetricsLoggingCallback
main_build_trainer ==
    /\ pc = "build"
    /\ logger_run_id' = run
    /\ all_preds' = EmptyBuffer
    /\ all_labels' = EmptyBuffer
    /\ pass' = NewPass
    /\ pc' = "fit"
    /\ last' = [NoCall EXCEPT !.op = "build_trainer"]
    /\ UNCHANGED << tracking_uri, active_run_stack, run_status, run, history >>

\* line 167: trainer.fit returns or raises
main_fit ==
    /\ pc = "fit"
    /\ history' = Phase(history, "fit")
    /\ last' = [NoCall EXCEPT !.op = "fit"]
    /\ \E ok \in BOOLEAN :
        IF ok
        THEN pc' = "test" /\ UNCHANGED << active_run_stack, run_status >>
        ELSE Abort(active_run_stack, run_status)
    /\ UNCHANGED << all_preds, all_labels, tracking_uri, logger_run_id, run,
                    pass >>

\* line 170: trainer.test calls on_test_batch_end after every test batch
main_test_batch ==
    /\ pc = "test"
    /\ \E outputs \in Outputs :
        /\ outputs.present => Len(all_preds) < MaxBatches
        /\ CallOnTestBatchEnd(outputs)
    /\ history' = Phase(history, "on_test_batch_end")
    /\ UNCHANGED << tracking_uri, active_run_stack, run_status, logger_run_id,
                    run, pc >>

\* line 170: trainer.test calls on_test_end after the last batch; an
\* exception of the callback leaves trainer.test and the `with` block
main_test_end ==
    /\ pc = "test"
    /\ history' = Phase(history, "on_test_end")
    /\ \E fault \in Faults :
        LET r == on_test_end(fault)
        IN  /\ CallOnTestEnd(r, fault)
            /\ IF r.outcome = "returned"
               THEN /\ active_run_stack' = r.stack
                    /\ run_status' = r.status
                    /\ pc' = "log_model"
               ELSE Abort(r.stack, r.status)
    /\ UNCHANGED << logger_run_id, run >>

\* lines 175-177: mlflow.pytorch.log_model returns or raises
main_log_model ==
    /\ pc = "log_model"
    /\ history' = Phase(history, "log_model")
    /\ last' = [NoCall EXCEPT !.op = "log_model"]
    /\ \E ok \in BOOLEAN :
        IF ok
        THEN pc' = "exit" /\ UNCHANGED << active_run_stack, run_status >>
        ELSE Abort(active_run_stack, run_status)
    /\ UNCHANGED << all_preds, all_labels, tracking_uri, logger_run_id, run,
                    pass >>

\* the end of the `with` block opened at line 113: the run is ended
main_exit ==
    /\ pc = "exit"
    /\ history' = Phase(history, "end_run")
    /\ run_status' = [run_status EXCEPT
                        ![ActiveRun(active_run_stack)] =
                            ExitStatus("returned")]
    /\ active_run_stack' = LeaveRun(active_run_stack)
    /\ pc' = "done"
    /\ last' = [NoCall EXCEPT !.op = "end_run"]
    /\ UNCHANGED << all_preds, all_labels, tracking_uri, logger_run_id, run,
                    pass >>

MainNext ==
    \/ main_set_tracking_uri
    \/ main_start_run
    \/ main_build_trainer
    \/ main_fit
    \/ main_test_batch
    \/ main_test_end
    \/ main_log_model
    \/ main_exit

MainSpec == MainInit /\ [][MainNext]_vars

(***************************************************************************)
(* Vocabulary of the properties                                            *)
(***************************************************************************)
EvNames(trace) == [i \in 1..Len(trace) |-> trace[i].ev]

Count(trace, ev) == Cardinality({ i \in 1..Len(trace) : trace[i].ev = ev })

Logits(batches) == [k \in 1..Len(batches) |-> batches[k].logits]

Labels(batches) == [k \in 1..Len(batches) |-> batches[k].labels]

\* number of rows in the parts before part k
RECURSIVE Offset(_, _)
Offset(parts, k) ==
    IF k <= 1 THEN 0 ELSE Offset(parts, k - 1) + Len(parts[k - 1])

\* arr holds exactly the rows of parts, part after part, row after row
IsConcatOf(arr, parts) ==
    /\ Len(arr) = Offset(parts, Len(parts) + 1)
    /\ \A k \in 1..Len(parts) : \A j \in 1..Len(parts[k]) :
          arr[Offset(parts, k) + j] = parts[k][j]

TestEnded == last.op = "on_test_end"

\* on_test_end got past np.concatenate
Aggregated == TestEnded /\ last.outcome # "NoDataError"

\* log_to_mlflow was reached (calculate_metrics accepted the arrays) and
\* the backend fails it
PublishRaises ==
    /\ TestEnded
    /\ last.n_before > 0
    /\ Len(last.agg_labels) = Len(last.y_pred_proba)
    /\ last.fault = "publish"

(***************************************************************************)
(* C1: if the publish step of on_test_end raises, both buffers are empty   *)
(* when the call has returned via the exception.                           *)
(* The code clears the buffers only after a normal return: violated.       *)
(***************************************************************************)
C1_BuffersEmptyAfterPublishRaised ==
    (TestEnded /\ last.raised_by = "log_to_mlflow")
        => (all_preds = << >> /\ all_labels = << >>)

(***************************************************************************)
(* C2: called with no run active, on_test_end enters the run of the        *)
(* logger's run_id, calculates and publishes while attached to it, leaves  *)
(* it, and after a normal return no run is active.                         *)
(***************************************************************************)
C2_AttachPublishDetach ==
    (TestEnded /\ last.stack_before = << >> /\ last.outcome = "returned")
        => /\ EvNames(last.trace) =
                << "set_tracking_uri", "active_run", "start_run",
                   "calculate_metrics", "log_to_mlflow", "end_run" >>
           /\ \A i \in 3..6 : last.trace[i].run = logger_run_id
           /\ active_run_stack = << >>

C2_Witness ==
    /\ TestEnded
    /\ last.stack_before = << >>
    /\ last.outcome = "returned"
    /\ Len(last.agg_labels) > 1

(***************************************************************************)
(* C3: called with a run active, on_test_end never starts or ends a run,   *)
(* publishes directly into the active run, and that run is still the       *)
(* active run afterwards.                                                  *)
(***************************************************************************)
C3_ActiveRunPublishesDirectly ==
    (TestEnded /\ last.stack_before # << >>)
        => /\ Count(last.trace, "start_run") = 0
           /\ Count(last.trace, "end_run") = 0
           /\ active_run_stack = last.stack_before
           /\ run_status[ActiveRun(active_run_stack)] = "RUNNING"
           /\ last.outcome = "returned" =>
                /\ EvNames(last.trace) =
                     << "set_tracking_uri", "active_run",
                        "calculate_metrics", "log_to_mlflow" >>
                /\ last.trace[4].run = ActiveRun(last.stack_before)

C3_Witness ==
    /\ TestEnded
    /\ last.stack_before # << >>
    /\ last.outcome = "returned"

(***************************************************************************)
(* C4: every on_test_end that returns normally made exactly one            *)
(* calculate_metrics call followed by exactly one log_to_mlflow call, in   *)
(* either branch; on_test_batch_end makes neither call.                    *)
(***************************************************************************)
C4_PublishedOncePerPass ==
    /\ (TestEnded /\ last.outcome = "returned")
          => /\ Count(last.trace, "calculate_metrics") = 1
             /\ Count(last.trace, "log_to_mlflow") = 1
             /\ \E i, j \in 1..Len(last.trace) :
                   /\ i < j
                   /\ last.trace[i].ev = "calculate_metrics"
                   /\ last.trace[j].ev = "log_to_mlflow"
    /\ last.op = "on_test_batch_end"
          => /\ Count(last.trace, "calculate_metrics") = 0
             /\ Count(last.trace, "log_to_mlflow") = 0

C4_Witness ==
    /\ TestEnded
    /\ last.outcome = "returned"
    /\ last.pass_prev = "returned"
    /\ last.stack_before = << >>

(***************************************************************************)
(* C5: when the previous pass's on_test_end returned normally, the labels  *)
(* and probabilities handed to calculate_metrics are built from the        *)
(* batches observed in the current pass only.                              *)
(***************************************************************************)
C5_NoCrossPassLeakage ==
    (Aggregated /\ last.pass_prev = "returned")
        => /\ IsConcatOf(last.agg_labels, Labels(last.pass_batches))
           /\ Len(last.y_pred_proba) = Len(last.agg_preds)
           /\ IsConcatOf(last.agg_preds, Logits(last.pass_batches))
           /\ \A i \in 1..Len(last.agg_preds) :
                 last.y_pred_proba[i] = Sigmoid(last.agg_preds[i])

C5_Witness ==
    /\ Aggregated
    /\ last.pass_prev = "returned"
    /\ Len(last.pass_batches) = 2
    /\ Count(last.trace, "log_to_mlflow") = 1

(***************************************************************************)
(* C6: on_test_end called with empty buffers raises and publishes          *)
(* nothing; right after an on_test_end that returned normally, another     *)
(* on_test_end raises that error.                                          *)
(***************************************************************************)
C6_EmptyBuffersRaise ==
    /\ (TestEnded /\ last.n_before = 0)
          => /\ last.outcome = "NoDataError"
             /\ Count(last.trace, "calculate_metrics") = 0
             /\ Count(last.trace, "log_to_mlflow") = 0
    /\ (TestEnded /\ last.outcome = "returned")
          => \A fault \in Faults : on_test_end(fault).outcome = "NoDataError"

C6_Witness ==
    /\ TestEnded
    /\ last.outcome = "NoDataError"
    /\ last.pass_prev = "returned"
    /\ last.pass_batches = << >>

(***************************************************************************)
(* C7: for the N >= 1 batches observed in one pass, the aggregated logits  *)
(* and labels built by on_test_end have length b_1+...+b_N and hold the    *)
(* batches' rows in the order observed.                                    *)
(* After a pass whose publish raised the buffers still hold that pass's    *)
(* batches (C1), so the next pass aggregates them too: violated.           *)
(***************************************************************************)
C7_AggregatesThePassInOrder ==
    (Aggregated /\ last.pass_batches # << >>)
        => /\ IsConcatOf(last.agg_preds, Logits(last.pass_batches))
           /\ IsConcatOf(last.agg_labels, Labels(last.pass_batches))

(***************************************************************************)
(* C8: on_test_batch_end with outputs None returns normally and leaves     *)
(* the buffers and the tracking state unchanged; with a batch output it    *)
(* appends exactly one entry to each buffer and changes nothing else.      *)
(***************************************************************************)
C8_BatchEndFrame ==
    [][ last'.op = "on_test_batch_end" =>
          /\ last'.outcome = "returned"
          /\ UNCHANGED << tracking_uri, active_run_stack, run_status,
                          logger_run_id >>
          /\ IF last'.outputs.present
             THEN /\ all_preds' = Append(all_preds, last'.outputs.logits)
                  /\ all_labels' = Append(all_labels, last'.outputs.labels)
             ELSE UNCHANGED << all_preds, all_labels >> ]_vars

C8_Witness ==
    /\ last.op = "on_test_batch_end"
    /\ ~last.outputs.present
    /\ Len(all_preds) = 1
    /\ active_run_stack # << >>

(***************************************************************************)
(* C9: if log_to_mlflow raises, in either branch, on_test_end ends with    *)
(* that error reaching the caller, and log_to_mlflow was attempted         *)
(* exactly once in the call.                                               *)
(***************************************************************************)
C9_PublishErrorPropagates ==
    PublishRaises
        => /\ last.outcome = "TrackingBackendError"
           /\ last.raised_by = "log_to_mlflow"
           /\ Count(last.trace, "log_to_mlflow") = 1

C9_Witness ==
    /\ TestEnded
    /\ last.fault = "publish"
    /\ last.outcome = "TrackingBackendError"
    /\ last.stack_before = << >>

(***************************************************************************)
(* C10: one invocation of main creates exactly one run, then drives fit,   *)
(* then the test phase (on_test_batch_end calls, then on_test_end), then   *)
(* log_model, in that order, and the run it created is the active run at   *)
(* every step from its creation until log_model has completed.             *)
(***************************************************************************)
MainOrder ==
    << "start_run", "fit", "on_test_batch_end", "on_test_end", "log_model",
       "end_run" >>

Pos(name) == CHOOSE i \in 1..Len(MainOrder) : MainOrder[i] = name

\* the phases of h are phases of MainOrder, each once, in MainOrder's order
InMainOrder(h) ==
    /\ \A i \in 1..Len(h) : \E k \in 1..Len(MainOrder) : h[i] = MainOrder[k]
    /\ \A i, j \in 1..Len(h) : i < j => Pos(h[i]) < Pos(h[j])

RunsCreated == { r \in RunIds : run_status[r] # "absent" }

C10_MainOrderAndRunOpen ==
    /\ InMainOrder(history)
    /\ pc = "done" => history = MainOrder
    /\ pc = "exit" => history = SubSeq(MainOrder, 1, 5)
    /\ Cardinality(RunsCreated) = (IF history = << >> THEN 0 ELSE 1)
    /\ pc \in {"build", "fit", "test", "log_model", "exit"}
          => /\ active_run_stack = << run >>
             /\ RunsCreated = {run}
             /\ run_status[run] = "RUNNING"

C10_Witness ==
    /\ pc = "exit"
    /\ history = SubSeq(MainOrder, 1, 5)
    /\ active_run_stack = << run >>
    /\ tracking_uri = TrackingUri


(***************************************************************************)
(* C11: if on_test_end raises during the test phase of main, main is       *)
(* aborted: log_model is never reached, and the run main had opened is     *)
(* closed with status FAILED, not FINISHED.                                *)
(***************************************************************************)
C11_TestEndErrorAbortsMain ==
    (TestEnded /\ last.outcome # "returned")
        => /\ pc = "aborted"
           /\ \A i \in 1..Len(history) :
                 history[i] # "log_model" /\ history[i] # "end_run"
           /\ active_run_stack = << >>
           /\ RunsCreated = {run}
           /\ run_status[run] = "FAILED"

C11_Witness ==
    /\ TestEnded
    /\ last.outcome = "TrackingBackendError"
    /\ Len(last.agg_labels) > 1
    /\ pc = "aborted"


(***************************************************************************)
(* C12: every log_to_mlflow call of on_test_end is made while the active   *)
(* run is the run of the logger's run_id (the run main created and gave to *)
(* the logger), in both branches; no metrics go to a run of another id.    *)
(***************************************************************************)
C12_PublishedUnderLoggerRun ==
    TestEnded =>
        \A i \in 1..Len(last.trace) :
            last.trace[i].ev \in {"calculate_metrics", "log_to_mlflow"}
                => /\ last.trace[i].run = logger_run_id
                   /\ last.trace[i].run = run

C12_Witness ==
    /\ TestEnded
    /\ last.outcome = "returned"
    /\ last.stack_before = << >>
    /\ last.pass_prev = "returned"
    /\ Count(last.trace, "log_to_mlflow") = 1


(***************************************************************************)
(* C13: the two buffers always hold the same number of entries; when       *)
(* every buffered batch has logits and labels of equal batch size, the     *)
(* label array and the probability array handed to calculate_metrics have  *)
(* the same length, and no ShapeMismatchError is raised.                   *)
(***************************************************************************)
C13_BuffersInLockstep ==
    /\ Len(all_preds) = Len(all_labels)
    /\ (Aggregated /\ last.sizes_ok)
          => /\ Len(last.agg_labels) = Len(last.y_pred_proba)
             /\ Len(last.agg_labels) = Len(last.agg_preds)
             /\ last.outcome # "ShapeMismatchError"

C13_Witness ==
    /\ Aggregated
    /\ last.sizes_ok
    /\ last.n_before = 2
    /\ Count(last.trace, "calculate_metrics") = 1
    /\ Len(last.agg_labels) = 3


(***************************************************************************)
(* C14: on_test_end leaves the in-process active run as it found it, also  *)
(* when it fails: with no run active, an error of calculate_metrics or     *)
(* log_to_mlflow raised while attached to run_id reaches the caller only   *)
(* after the run was left, and no run is active afterwards; with a run     *)
(* active, that run is still the active run after the error.               *)
(***************************************************************************)
C14_ActiveRunStateRestored ==
    TestEnded =>
        /\ active_run_stack = last.stack_before
        /\ (/\ last.stack_before = << >>
            /\ last.raised_by \in {"calculate_metrics", "log_to_mlflow"})
              => /\ active_run_stack = << >>
                 /\ Count(last.trace, "start_run") = 1
                 /\ last.trace[Len(last.trace)] = Event("end_run", logger_run_id)

C14_Witness ==
    /\ TestEnded
    /\ last.stack_before = << >>
    /\ last.raised_by = "calculate_metrics"
    /\ last.outcome = "ShapeMismatchError"
    /\ active_run_stack = << >>


(***************************************************************************)
(* C15: when on_test_end fails because the buffers are empty, it fails     *)
(* before any tracking interaction: the tracking uri is not set, the       *)
(* active run is neither queried nor changed, no run is entered,           *)
(* calculate_metrics and log_to_mlflow are not called, and both buffers    *)
(* remain empty.                                                           *)
(***************************************************************************)
C15_NoDataBeforeTracking ==
    [][ (last'.op = "on_test_end" /\ last'.outcome = "NoDataError") =>
          /\ last'.n_before = 0
          /\ last'.trace = << >>
          /\ UNCHANGED << tracking_uri, active_run_stack, run_status >>
          /\ all_preds = << >> /\ all_labels = << >>
          /\ UNCHANGED << all_preds, all_labels >> ]_vars

C15_Witness ==
    /\ TestEnded
    /\ last.outcome = "NoDataError"
    /\ last.trace = << >>
    /\ tracking_uri = "unset"
    /\ active_run_stack # << >>
    /\ all_preds = << >>

====
